---- MODULE Spec2Model ----
(***************************************************************************)
(* A model of enterprise/signals/parameter.py: the hierarchical            *)
(* named-parameter graph (Parameter, ConstantParameter, Function), its     *)
(* instantiation and naming, flattening (params), Function evaluation and  *)
(* add_kwarg, Parameter.sample, get_pdf and get_logpdf, the LinearExp      *)
(* prior and sampler, and the module-level sampling driver                 *)
(* sample()/_sample().                                                     *)
(*                                                                         *)
(* Python objects live in a heap: a function from object ids to records.   *)
(* An id is the path of slot keys along which the object was created, so   *)
(* two objects are the same object iff their ids are equal, whatever their *)
(* names.  Python dicts whose iteration order the code relies on           *)
(* (func_kwargs, _params, _funcs, _defaults) are sequences of <<key,       *)
(* value>> pairs in insertion order; the flat value contexts and keyword   *)
(* sets are functions from strings.                                        *)
(***************************************************************************)
EXTENDS Integers, Sequences, FiniteSets, TLC

(***************************************************************************)
(* Values.  Every value is a tagged tuple, so that any two values can be   *)
(* compared: a number, None, or the result of calling a wrapped callable   *)
(* (kept as the uninterpreted application of func to its arguments).         *)
(***************************************************************************)
None == <<"none">>
Val(n) == <<"val", n>>
App(func, args, kwargs) == <<"app", [func |-> func, args |-> args, kwargs |-> kwargs]>>

(***************************************************************************)
(* Ordered dicts: sequences of <<key, value>> pairs, keys distinct.        *)
(***************************************************************************)
EmptyDict == <<>>
DKeys(d) == {d[i][1] : i \in 1..Len(d)}
DHas(d, k) == \E i \in 1..Len(d) : d[i][1] = k
DGet(d, k) == d[CHOOSE i \in 1..Len(d) : d[i][1] = k][2]
DValues(d) == [i \in 1..Len(d) |-> d[i][2]]
\* d[k] = v: an existing key keeps its place, a new key goes last
DSet(d, k, v) ==
    IF DHas(d, k)
    THEN [i \in 1..Len(d) |-> IF d[i][1] = k THEN <<k, v>> ELSE d[i]]
    ELSE Append(d, <<k, v>>)
RECURSIVE DUpdate(_, _)
\* d.update(e)
DUpdate(d, e) ==
    IF e = <<>> THEN d ELSE DUpdate(DSet(d, e[1][1], e[1][2]), Tail(e))

(***************************************************************************)
(* Flat mappings (value contexts, keyword sets): functions from strings.   *)
(***************************************************************************)
EmptyMap == <<>>
MSet(m, k, v) == [x \in DOMAIN m \cup {k} |-> IF x = k THEN v ELSE m[x]]
MUpdate(m, e) == [x \in DOMAIN m \cup DOMAIN e |-> IF x \in DOMAIN e THEN e[x] ELSE m[x]]
MRestrict(m, S) == [x \in DOMAIN m \cap S |-> m[x]]

(***************************************************************************)
(* Naming: '_'.join([n for n in names if n])                               *)
(***************************************************************************)
RECURSIVE JoinNonEmpty(_)
JoinNonEmpty(names) ==
    IF names = <<>> THEN ""
    ELSE LET rest == JoinNonEmpty(Tail(names))
         IN IF Head(names) = "" THEN rest
            ELSE IF rest = "" THEN Head(names)
            ELSE Head(names) \o "_" \o rest

(***************************************************************************)
(* Specs (uninstantiated classes) and the other keyword arguments a        *)
(* Function spec can carry.                                                *)
(***************************************************************************)
\* Function(func, name=fname, **func_kwargs): kw is func_kwargs in order
FunctionSpec(func, fname, kw) == [t |-> "FSpec", func |-> func, fname |-> fname, kw |-> kw]
\* a Parameter class: _prior, _sampler (None when absent), _size
ParameterSpec(prior, sampler, size) ==
    [t |-> "PSpec", prior |-> prior, sampler |-> sampler, size |-> size]
\* Constant(val)
ConstantSpec(val) == [t |-> "CSpec", val |-> val]
\* an already instantiated Parameter, ConstantParameter or Function
Instance(id) == [t |-> "Inst", ref |-> id]
\* anything else: a literal default
Literal(val) == [t |-> "Lit", val |-> val]

\* the class factories of the prior library
Uniform(pmin, pmax, size) ==
    ParameterSpec(FunctionSpec("UniformPrior", "", <<<<"pmin", pmin>>, <<"pmax", pmax>>>>),
                  "UniformSampler", size)
Normal(mu, sigma, size) ==
    ParameterSpec(FunctionSpec("NormalPrior", "", <<<<"mu", mu>>, <<"sigma", sigma>>>>),
                  "NormalSampler", size)
LinearExp(pmin, pmax, size) ==
    ParameterSpec(FunctionSpec("LinearExpPrior", "", <<<<"pmin", pmin>>, <<"pmax", pmax>>>>),
                  "LinearExpSampler", size)
UserParameter(prior, sampler, size) == ParameterSpec(prior, sampler, size)

(***************************************************************************)
(* Instantiation.                                                          *)
(***************************************************************************)
IsParameter(h, id) == h[id].cls = "Parameter"
IsConstantParameter(h, id) == h[id].cls = "ConstantParameter"
IsFunction(h, id) == h[id].cls = "Function"

\* the slot name with the empty members kept in the join
SlotNameKeepEmpty(name, fname, kw) == name \o "_" \o fname \o "_" \o kw

\* the slot name without the slot key
SlotNameNoKey(name, fname, kw) == JoinNonEmpty(<<name, fname>>)

\* pnames = [name, fname, kw]; '_'.join([n for n in pnames if n])
SlotName(name, fname, kw) == JoinNonEmpty(<<name, fname, kw>>)

\* self.name = '_'.join([n for n in [name, fname] if n])
FunctionName(name, fname) == JoinNonEmpty(<<name, fname>>)

RECURSIVE NewParameter(_, _, _, _), NewFunction(_, _, _, _, _), InitKwargs(_, _, _, _, _)

\* Parameter.__init__(name) and ConstantParameter.__init__(name): the heap h
\* with the new object at id (and, for a Parameter, its prior below it)
NewParameter(h, spec, name, id) ==
    IF spec.t = "CSpec"
    THEN h @@ (id :> [cls |-> "ConstantParameter", name |-> name, value |-> spec.val])
    ELSE LET pid == id \o <<"prior">>
             h1 == NewFunction(h, spec.prior, name, None, pid)
         IN h1 @@ (id :> [cls |-> "Parameter", name |-> name, prior |-> pid,
                          sampler |-> spec.sampler, size |-> spec.size])

\* the loop over func_kwargs in Function.__init__, from entry i on
InitKwargs(h, id, name, psr, i) ==
    LET self == h[id] IN
    IF i > Len(self.func_kwargs) THEN h
    ELSE
    LET kw == self.func_kwargs[i][1]
        arg == self.func_kwargs[i][2]
        pname == SlotName(name, self.fname, kw)
        cid == id \o <<kw>>
    IN
    IF arg.t \in {"PSpec", "CSpec"} THEN
        LET h1 == NewParameter(h, arg, pname, cid)
        IN InitKwargs([h1 EXCEPT ![id].params = DSet(@, kw, cid)], id, name, psr, i + 1)
    ELSE IF arg.t = "Inst" /\ ~IsFunction(h, arg.ref) THEN
        InitKwargs([h EXCEPT ![id].params = DSet(@, kw, arg.ref)], id, name, psr, i + 1)
    ELSE IF arg.t = "FSpec" THEN
        LET h1 == NewFunction(h, arg, pname, psr, cid)
        IN InitKwargs([h1 EXCEPT ![id].funcs = DSet(@, kw, cid),
                                 ![id].params = DUpdate(@, h1[cid].params)],
                      id, name, psr, i + 1)
    ELSE IF arg.t = "Inst" THEN
        InitKwargs([h EXCEPT ![id].funcs = DSet(@, kw, arg.ref),
                             ![id].params = DUpdate(@, h[arg.ref].params)],
                   id, name, psr, i + 1)
    ELSE
        InitKwargs([h EXCEPT ![id].defaults = DSet(@, kw, arg.val)], id, name, psr, i + 1)

\* Function.__init__(name, psr): params, funcs and defaults are the dicts
\* _params (slot -> Parameter/ConstantParameter id), _funcs (slot -> Function
\* id) and _defaults (slot -> value)
NewFunction(h, spec, name, psr, id) ==
    LET self == [cls |-> "Function", func |-> spec.func, fname |-> spec.fname,
                 psr |-> psr, params |-> EmptyDict, defaults |-> EmptyDict,
                 funcs |-> EmptyDict,
                 name |-> FunctionName(name, spec.fname),
                 func_kwargs |-> spec.kw]
    IN InitKwargs(h @@ (id :> self), id, name, psr, 1)

(***************************************************************************)
(* Flattening.  Parameter.params and Function.params call each other; one  *)
(* frame of the interpreter's stack per call.  A walk that needs more than *)
(* RecursionLimit frames ends in the interpreter's RecursionError.         *)
(***************************************************************************)
RecursionLimit == 12

Flat(list) == [err |-> "", list |-> list]
Raised(err) == [err |-> err, list |-> <<>>]

RECURSIVE ParameterParams(_, _, _), FunctionParams(_, _, _), SumParams(_, _, _, _)

\* [self] + [par for par in self.prior.params
\*           if not isinstance(par, ConstantParameter)]
ParameterParams(h, id, frames) ==
    IF frames = 0 THEN Raised("RecursionError")
    ELSE LET r == FunctionParams(h, h[id].prior, frames - 1)
         IN IF r.err # "" THEN r
            ELSE Flat(<<id>> \o SelectSeq(r.list, LAMBDA par : ~IsConstantParameter(h, par)))

\* the sum without the test for a constant: the constant itself is kept
SumParamsKeepConstants(h, pars, i, frames) ==
    IF i > Len(pars) THEN Flat(<<>>)
    ELSE LET r == IF IsConstantParameter(h, pars[i]) THEN Flat(<<pars[i]>>)
                  ELSE ParameterParams(h, pars[i], frames)
         IN IF r.err # "" THEN r
            ELSE LET rest == SumParams(h, pars, i + 1, frames)
                 IN IF rest.err # "" THEN rest ELSE Flat(r.list \o rest.list)

\* sum([par.params for par in pars[i..] if not constant], [])
SumParams(h, pars, i, frames) ==
    IF i > Len(pars) THEN Flat(<<>>)
    ELSE IF IsConstantParameter(h, pars[i]) THEN SumParams(h, pars, i + 1, frames)
    ELSE LET r == ParameterParams(h, pars[i], frames)
         IN IF r.err # "" THEN r
            ELSE LET rest == SumParams(h, pars, i + 1, frames)
                 IN IF rest.err # "" THEN rest ELSE Flat(r.list \o rest.list)

\* Function.params
FunctionParams(h, id, frames) ==
    IF frames = 0 THEN Raised("RecursionError")
    ELSE SumParams(h, DValues(h[id].params), 1, frames - 1)

(***************************************************************************)
(* Function.__call__.  kwargs is the keyword mapping of the call: the      *)
(* special keys "params" (the value context) and "func" (the callable to   *)
(* call instead of the wrapped one) and the overrides.                     *)
(***************************************************************************)
\* the allow-list without the vector size
PassThroughWithoutSize == {"psr", "mask"}

PassThrough == {"psr", "mask", "size"}

\* hasattr(par, 'value')
HasValue(par) == par.cls = "ConstantParameter"

RECURSIVE FunctionCall(_, _, _, _)

\* the test for an override left out
OverriddenNever(kwargs, kw) == FALSE

\* if kw not in kwargs
Overridden(kwargs, kw) == kw \in DOMAIN kwargs

\* the fixed value tried before the value context
ParValueFixedFirst(par, params) ==
    IF HasValue(par) THEN <<par.value>>
    ELSE IF par.name \in DOMAIN params THEN <<params[par.name]>>
    ELSE <<>>

\* a sub-parameter slot: params[par.name] if present, else par.value if the
\* parameter has one, else nothing
ParValue(par, params) ==
    IF par.name \in DOMAIN params THEN <<params[par.name]>>
    ELSE IF HasValue(par) THEN <<par.value>>
    ELSE <<>>

\* a sub-function slot: f is called with the keywords it declares and params
SubCall(h, f, params, kwargs) ==
    FunctionCall(h, f, <<>>,
                 MSet(MRestrict(kwargs, DKeys(h[f].func_kwargs)), "params", params))

\* one pass of the loop that augments kwargs: the slot kw
AugmentSlot(h, id, params, kwargs, kw) ==
    LET self == h[id] IN
    IF Overridden(kwargs, kw) THEN kwargs
    ELSE IF DHas(self.params, kw) THEN
        LET v == ParValue(h[DGet(self.params, kw)], params)
        IN IF v = <<>> THEN kwargs ELSE MSet(kwargs, kw, v[1])
    ELSE IF DHas(self.defaults, kw) THEN MSet(kwargs, kw, DGet(self.defaults, kw))
    ELSE IF DHas(self.funcs, kw)
    THEN MSet(kwargs, kw, SubCall(h, DGet(self.funcs, kw), params, kwargs))
    ELSE kwargs

RECURSIVE Augment(_, _, _, _, _)
\* for kw, arg in func_kwargs.items(): ..., from entry i on
Augment(h, id, params, kwargs, i) ==
    IF i > Len(h[id].func_kwargs) THEN kwargs
    ELSE Augment(h, id, params,
                 AugmentSlot(h, id, params, kwargs, h[id].func_kwargs[i][1]), i + 1)

\* the keyword set the callable is called with
CallKwargs(h, id, kwargs) ==
    LET self == h[id]
        params == IF "params" \in DOMAIN kwargs THEN kwargs["params"] ELSE EmptyMap
        kw0 == MRestrict(kwargs, DOMAIN kwargs \ {"params", "func"})
        kw1 == Augment(h, id, params, kw0, 1)
        kw2 == IF self.psr # None /\ "psr" \notin DOMAIN kw1
               THEN MSet(kw1, "psr", self.psr) ELSE kw1
    IN MRestrict(kw2, DKeys(self.func_kwargs) \cup PassThrough)

\* __call__: the value of the callable applied to args and the keyword set
FunctionCall(h, id, args, kwargs) ==
    LET func == IF "func" \in DOMAIN kwargs THEN kwargs["func"] ELSE h[id].func
    IN App(func, args, CallKwargs(h, id, kwargs))

(***************************************************************************)
(* Parameter.sample with keywords kwargs: the error raised, or the call of  *)
(* the sampler (whose value is the draw).                                  *)
(***************************************************************************)
\* the sampler called without the keywords of the call
ParameterSampleWithoutKwargs(h, id, kwargs) ==
    LET self == h[id] IN
    IF self.sampler = "None" THEN [err |-> "AttributeError", call |-> None]
    ELSE IF self.name \in DOMAIN kwargs THEN [err |-> "ValueError", call |-> None]
    ELSE [err |-> "",
          call |-> FunctionCall(h, self.prior, <<>>,
                                MSet(MSet(EmptyMap, "func", self.sampler), "size", self.size))]

ParameterSample(h, id, kwargs) ==
    LET self == h[id] IN
    IF self.sampler = "None" THEN [err |-> "AttributeError", call |-> None]
    ELSE IF self.name \in DOMAIN kwargs THEN [err |-> "ValueError", call |-> None]
    ELSE [err |-> "",
          call |-> FunctionCall(h, self.prior, <<>>,
                                MSet(MSet(kwargs, "func", self.sampler), "size", self.size))]

\* the resolved keywords written into the caller's value context
CallEffectWritesContext(h, id, kwargs) ==
    [heap |-> h,
     params |-> MUpdate(IF "params" \in DOMAIN kwargs THEN kwargs["params"] ELSE EmptyMap,
                        CallKwargs(h, id, kwargs))]

\* what Function.__call__ leaves behind: the keywords of the call are bound to
\* a new dict kwargs, the statements del kwargs[...] and kwargs[kw] = ...
\* write to that dict only, params is only read, and no attribute of self or
\* of a sub-parameter is assigned; heap is the heap and params the caller's
\* value context after the call
CallEffect(h, id, kwargs) ==
    [heap |-> h,
     params |-> IF "params" \in DOMAIN kwargs THEN kwargs["params"] ELSE EmptyMap]

(***************************************************************************)
(* Parameter.get_pdf and Parameter.get_logpdf with the given value (None   *)
(* when absent) and keywords kwargs: the error raised, or the call of the  *)
(* prior (whose value is the density), and what is made of its value.      *)
(***************************************************************************)
ParameterGetPdf(h, id, value, kwargs, log) ==
    LET self == h[id]
        lookup == value = None /\ "params" \in DOMAIN kwargs
    IN IF lookup /\ self.name \notin DOMAIN kwargs["params"]
       THEN [err |-> "KeyError", call |-> None, value |-> None]
       ELSE LET v == IF lookup THEN kwargs["params"][self.name] ELSE value
                pdf == FunctionCall(h, self.prior, <<v>>, kwargs)
                out == IF log THEN App("np.log", <<pdf>>, EmptyMap) ELSE pdf
            IN [err |-> "", call |-> pdf,
                value |-> IF self.size = None THEN out
                          ELSE App(IF log THEN "np.sum" ELSE "np.prod", <<out>>, EmptyMap)]

(***************************************************************************)
(* Parameter.__call__ and ConstantParameter.__call__ with a name: the      *)
(* object returned and the heap after the call.                            *)
(***************************************************************************)
\* the instance takes the new name
ParameterCallRenames(h, id, name) == [ret |-> id, heap |-> [h EXCEPT ![id].name = name]]

\* return self
ParameterCall(h, id, name) == [ret |-> id, heap |-> h]

(***************************************************************************)
(* Function.add_kwarg(k=v): self._defaults.update(kwargs)                  *)
(***************************************************************************)
FunctionAddKwarg(h, id, k, v) == [h EXCEPT ![id].defaults = DUpdate(@, <<<<k, v>>>>)]

(***************************************************************************)
(* The callables of the prior library that check their arguments.  A value *)
(* token stands for a number; the outcome of a call is the error raised     *)
(* and the calls made to the random-number library.                        *)
(***************************************************************************)
Number(v) ==
    CASE v = Val("0") -> 0
      [] v = Val("1") -> 1
      [] v = Val("ctx") -> 1
      [] v = Val("ov") -> 0
      [] OTHER -> 2

Outcome(err, lib) == [err |-> err, lib |-> lib]

\* if np.any(pmin >= pmax): raise ValueError; the density is then computed
\* with arithmetic only
LinearExpPrior(value, pmin, pmax) ==
    IF Number(pmin) >= Number(pmax) THEN Outcome("ValueError", <<>>)
    ELSE Outcome("", <<>>)

\* the bounds looked at only after the numbers were drawn
LinearExpSamplerDrawsFirst(pmin, pmax, size) ==
    IF Number(pmin) >= Number(pmax) THEN Outcome("ValueError", <<"np.random.uniform">>)
    ELSE Outcome("", <<"np.random.uniform">>)

\* if np.any(pmin >= pmax): raise ValueError;
\* return np.log10(np.random.uniform(10**pmin, 10**pmax, size))
LinearExpSampler(pmin, pmax, size) ==
    IF Number(pmin) >= Number(pmax) THEN Outcome("ValueError", <<>>)
    ELSE Outcome("", <<"np.random.uniform">>)

\* func(*args, **kwargs) for the value app of a call: a missing or an
\* unexpected argument is a TypeError of the interpreter; the callables a
\* user supplies are not interpreted
Invoke(app) ==
    LET func == app[2].func
        args == app[2].args
        kw == app[2].kwargs
    IN CASE func = "LinearExpPrior" ->
              IF Len(args) # 1 \/ DOMAIN kw # {"pmin", "pmax"} THEN Outcome("TypeError", <<>>)
              ELSE LinearExpPrior(args[1], kw["pmin"], kw["pmax"])
         [] func = "LinearExpSampler" ->
              IF Len(args) # 0 \/ DOMAIN kw # {"pmin", "pmax", "size"}
              THEN Outcome("TypeError", <<>>)
              ELSE LinearExpSampler(kw["pmin"], kw["pmax"], kw["size"])
         [] OTHER -> Outcome("", <<>>)

(***************************************************************************)
(* Model definitions.  A script is what the modelling code runs before any *)
(* evaluation: a sequence of statements  id = spec(name, psr)  and, for    *)
(* the cyclic graph, one assignment to the attribute prior of an instance. *)
(***************************************************************************)
New(id, spec, name, psr) == [op |-> "new", id |-> id, spec |-> spec, name |-> name, psr |-> psr]
SetPrior(id, spec) == [op |-> "setprior", id |-> id, spec |-> spec, name |-> "", psr |-> None]

RECURSIVE RunScript(_, _)
RunScript(h, script) ==
    IF script = <<>> THEN h
    ELSE LET st == Head(script)
             h1 == IF st.op = "setprior"
                   THEN LET pid == st.id \o <<"prior'">>
                        IN [NewFunction(h, st.spec, h[st.id].name, None, pid)
                               EXCEPT ![st.id].prior = pid]
                   ELSE IF st.spec.t = "FSpec"
                   THEN NewFunction(h, st.spec, st.name, st.psr, st.id)
                   ELSE NewParameter(h, st.spec, st.name, st.id)
         IN RunScript(h1, Tail(script))

Lit0 == Literal(Val("0"))
Lit1 == Literal(Val("1"))
\* a parameter with no hyperparameters
U0 == Uniform(Lit0, Lit1, None)
Const == ConstantSpec(Val("const"))

Keys == {"a", "b", "a_b"}
FNames == {"", "b"}
CtxNames == {"", "sig"}

\* r <- r_pmin <- r_pmin_pmin, and a constant
ChainScript ==
    <<New(<<"r">>, Uniform(Uniform(U0, Lit1, None), Const, None), "r", None)>>

\* one hyperparameter instance h under two roots, and in both slots of a third
SharedScript ==
    <<New(<<"h">>, U0, "h", None),
      New(<<"r1">>, Uniform(Instance(<<"h">>), Lit1, None), "r1", None),
      New(<<"r2">>, Normal(Instance(<<"h">>), Const, None), "r2", None),
      New(<<"r3">>, Uniform(Instance(<<"h">>), Instance(<<"h">>), None), "r3", None)>>

\* p's prior is replaced by one that depends on q, whose prior depends on p
CyclicScript ==
    <<New(<<"p">>, U0, "p", None),
      New(<<"q">>, Uniform(Instance(<<"p">>), Lit1, None), "q", None),
      SetPrior(<<"p">>, FunctionSpec("UniformPrior", "",
                                     <<<<"pmin", Instance(<<"q">>)>>, <<"pmax", Lit1>>>>)),
      New(<<"s">>, U0, "s", None)>>

\* a Function f with two slots, k1 bound to x and k2 to a sub-function g
\* with one slot k3 bound to y (g's entry first when gFirst), as the prior of
\* a parameter named c or on its own, instantiated under c, with a pulsar;
\* the instance h exists when a slot is bound to it
FunctionScript(asPrior, gFirst, c, fn, k1, k2, x, gn, k3, y) ==
    LET g == FunctionSpec("g", gn, <<<<k3, y>>>>)
        kw == IF gFirst THEN <<<<k2, g>>, <<k1, x>>>> ELSE <<<<k1, x>>, <<k2, g>>>>
        shared == IF Instance(<<"h">>) \in {x, y}
                  THEN <<New(<<"h">>, U0, "h", None)>> ELSE <<>>
    IN shared \o
       <<IF asPrior
         THEN New(<<"r">>, UserParameter(FunctionSpec("f", fn, kw), "UserSampler", None),
                  c, None)
         ELSE New(<<"F">>, FunctionSpec("f", fn, kw), c, Val("psr"))>>

\* a sub-function one level further down
SubK == FunctionSpec("k", "", <<<<"a", U0>>>>)

\* every choice of context name, intrinsic names and slot keys
NamingScripts ==
    { FunctionScript(TRUE, FALSE, t[1], t[2], t[3], t[4], U0, t[5], t[6], t[7]) :
      t \in { u \in CtxNames \X FNames \X Keys \X {"a", "b"} \X FNames
                     \X Keys \X {U0, SubK} : u[3] # u[4] } }

\* every kind of keyword argument, in the parent and in the sub-function
BindingScripts ==
    { FunctionScript(t[1], t[2], "sig", "", "a", "b", t[3], "", t[4], t[5]) :
      t \in BOOLEAN \X BOOLEAN \X {U0, Const, Lit1, Instance(<<"h">>)}
            \X {"a", "c"} \X {U0, Const, Lit0, Instance(<<"h">>), SubK} }

\* a parameter without a sampler
NoSamplerScript ==
    <<New(<<"n">>, UserParameter(FunctionSpec("f", "", <<<<"a", U0>>>>), "None", None),
          "n", None)>>

\* one instance h in a slot of two Functions, the second with a sub-function
\* as well, before or after h's slot
SharingScripts ==
    { LET g == FunctionSpec("g", "", <<<<"a", U0>>>>)
          kw == IF t[3] THEN <<<<"b", g>>, <<t[2], Instance(<<"h">>)>>>>
                ELSE <<<<t[2], Instance(<<"h">>)>>, <<"b", g>>>>
      IN <<New(<<"h">>, U0, "h", None),
           New(<<"F1">>, FunctionSpec("f", "", <<<<t[1], Instance(<<"h">>)>>>>), "s1", None),
           New(<<"F2">>, FunctionSpec("f", "", kw), "s2", None)>> :
      t \in {"a", "c"} \X {"a", "c"} \X BOOLEAN }

\* two instances of one spec
TwinScript ==
    LET S == FunctionSpec("f", "", <<<<"a", Lit1>>, <<"b", U0>>>>)
    IN <<New(<<"x">>, S, "x", None), New(<<"y">>, S, "y", None)>>

\* the bounds of a LinearExp: literals, or a hyperparameter
LinearExpScripts ==
    { <<New(<<"l">>, LinearExp(t[1], t[2], None), "l", None)>> :
      t \in {Lit0, Lit1, U0} \X {Lit0, Lit1, U0} }

\* a vector parameter whose prior has a sub-function with a slot "size"
SizeScript ==
    <<New(<<"v">>,
          UserParameter(
              FunctionSpec("f", "", <<<<"a", FunctionSpec("g", "", <<<<"size", Lit1>>>>)>>>>),
              "UserSampler", Val("3")),
          "v", None)>>

\* two sub-functions that both have a slot "a"
TwoSubFunctionsScript ==
    <<New(<<"F">>,
          FunctionSpec("f", "", <<<<"b", FunctionSpec("g", "", <<<<"a", U0>>>>)>>,
                                  <<"c", SubK>>>>),
          "sig", None)>>

Scripts ==
    {ChainScript, SharedScript, CyclicScript, NoSamplerScript, TwinScript, SizeScript,
     TwoSubFunctionsScript}
        \cup NamingScripts \cup BindingScripts \cup SharingScripts \cup LinearExpScripts

(***************************************************************************)
(* The state.                                                              *)
(***************************************************************************)
VARIABLES
    script,   \* the model definition that was run
    heap,     \* the objects it made
    status,   \* "define", "idle", "sampling", "returned", "raised", "called",
              \* "renamed", "added"
    roots,    \* the parlist of the outermost sample()
    stack,    \* the activations of sample(): parlist, position i, parvalues, pc
    draws,    \* every call of a sampler by the driver, in order
    result,   \* the mapping the outermost sample() returned
    error,    \* the exception a call ended in
    call,     \* the last direct call of a method
    ncalls    \* the number of calls of the outermost sample() so far

vars == <<script, heap, status, roots, stack, draws, result, error, call, ncalls>>

MaxRoots == 2
MaxOverrides == 1
MaxCalls == 2
MaxRootsAgain == 1
DrawVals == {"0", "1"}

NoCall == [op |-> "none"]

\* the objects the modelling code holds a name for
TopLevel(h) == {id \in DOMAIN h : Len(id) = 1}
Parameters(h) == {id \in DOMAIN h : IsParameter(h, id)}
Functions(h) == {id \in DOMAIN h : IsFunction(h, id)}

SeqsUpTo(S, n) == UNION {[1..m -> S] : m \in 0..n}

RECURSIVE ConsultedNames(_, _)
\* the names a call of Function id can look up in the value context
ConsultedNames(h, id) ==
    {h[par].name : par \in {h[id].params[j][2] : j \in 1..Len(h[id].params)}}
        \cup UNION {ConsultedNames(h, h[id].funcs[j][2]) : j \in 1..Len(h[id].funcs)}

\* a value context over the names in N
Contexts(N) == UNION {[S -> {Val("ctx")}] : S \in SUBSET N}
\* overrides of at most MaxOverrides of the keys in K
Overrides(K) ==
    UNION {[S -> {Val("ov")}] : S \in {T \in SUBSET K : Cardinality(T) <= MaxOverrides}}

Init ==
    /\ script = <<>>
    /\ heap = <<>>
    /\ status = "define"
    /\ roots = <<>>
    /\ stack = <<>>
    /\ draws = <<>>
    /\ result = EmptyMap
    /\ error = ""
    /\ call = NoCall
    /\ ncalls = 0

\* the modelling code runs
Build ==
    /\ status = "define"
    /\ \E sc \in Scripts :
        /\ script' = sc
        /\ heap' = RunScript(<<>>, sc)
    /\ status' = "idle"
    /\ UNCHANGED <<roots, stack, draws, result, error, call, ncalls>>

(***************************************************************************)
(* The sampling driver, sample() and _sample(), one step at a time.        *)
(***************************************************************************)
Frame(parlist) == [parlist |-> parlist, i |-> 1, parvalues |-> EmptyMap, pc |-> "loop"]
Top == stack[Len(stack)]
SetTop(f) == [stack EXCEPT ![Len(stack)] = f]

\* par in parvalues: the keys of parvalues are names (str); Parameter defines
\* neither __eq__ nor __hash__, so a Parameter equals a key only if it is
\* that same object
ParInParvalues(par, parvalues) ==
    <<"object", par>> \in {<<"str", k>> : k \in DOMAIN parvalues}

\* ret = {}: a new mapping at every call, whatever an earlier call returned
Ret(returned) == EmptyMap

\* sample(arg): a single Parameter is wrapped into a list; the caller may
\* call again once a call has returned, with at most MaxRootsAgain roots
CallSample ==
    /\ status \in {"idle", "returned"}
    /\ ncalls < MaxCalls
    /\ \E arg \in [single : {TRUE}, par : TopLevel(heap) \cap Parameters(heap)]
              \cup [single : {FALSE},
                    list : SeqsUpTo(TopLevel(heap) \cap Parameters(heap),
                                    IF ncalls = 0 THEN MaxRoots ELSE MaxRootsAgain)] :
        LET parlist == IF arg.single THEN <<arg.par>> ELSE arg.list
        IN /\ roots' = parlist
           /\ stack' = <<[Frame(parlist) EXCEPT !.parvalues = Ret(result)]>>
    /\ status' = "sampling"
    /\ draws' = <<>>
    /\ result' = EmptyMap
    /\ ncalls' = ncalls + 1
    /\ UNCHANGED <<script, heap, error, call>>

\* the slice taken one place too far: par.params[2:]
HyperParamsFromSecond(h, par) ==
    LET r == ParameterParams(h, par, RecursionLimit)
    IN IF r.err # "" THEN r ELSE Flat(SubSeq(r.list, 3, Len(r.list)))

\* par.params[1:]
HyperParams(h, par) ==
    LET r == ParameterParams(h, par, RecursionLimit)
    IN IF r.err # "" THEN r ELSE Flat(Tail(r.list))

\* for par in parlist: if par not in parvalues: ... sample(par.params[1:])
Descend ==
    /\ status = "sampling"
    /\ Top.pc = "loop"
    /\ Top.i <= Len(Top.parlist)
    /\ LET par == Top.parlist[Top.i] IN
       IF ParInParvalues(par, Top.parvalues)
       THEN /\ stack' = SetTop([Top EXCEPT !.i = @ + 1])
            /\ UNCHANGED <<status, error>>
       ELSE LET r == HyperParams(heap, par) IN
            IF r.err # ""
            THEN /\ stack' = <<>>
                 /\ status' = "raised"
                 /\ error' = r.err
            ELSE /\ stack' = Append(SetTop([Top EXCEPT !.pc = "update"]), Frame(r.list))
                 /\ UNCHANGED <<status, error>>
    /\ UNCHANGED <<script, heap, roots, draws, result, call, ncalls>>

\* return ret, and in the caller parvalues.update(...)
Return ==
    /\ status = "sampling"
    /\ Top.pc = "loop"
    /\ Top.i > Len(Top.parlist)
    /\ IF Len(stack) = 1
       THEN /\ result' = Top.parvalues
            /\ status' = "returned"
            /\ stack' = <<>>
       ELSE LET caller == stack[Len(stack) - 1] IN
            /\ stack' = [SubSeq(stack, 1, Len(stack) - 1) EXCEPT ![Len(stack) - 1] =
                            [caller EXCEPT !.parvalues = MUpdate(@, Top.parvalues),
                                           !.pc = "draw"]]
            /\ UNCHANGED <<result, status>>
    /\ UNCHANGED <<script, heap, roots, draws, error, call, ncalls>>

\* parvalues[par.name] = par.sample(params=parvalues)
Draw ==
    /\ status = "sampling"
    /\ Top.pc = "draw"
    /\ LET par == Top.parlist[Top.i]
           kwargs == "params" :> Top.parvalues
           r == ParameterSample(heap, par, kwargs)
           raised == IF r.err # "" THEN r.err ELSE Invoke(r.call).err
           eff == CallEffect(heap, heap[par].prior, kwargs)
       IN IF raised # ""
          THEN /\ stack' = <<>>
               /\ status' = "raised"
               /\ error' = raised
               /\ heap' = IF r.err # "" THEN heap ELSE eff.heap
               /\ UNCHANGED draws
          ELSE \E v \in DrawVals :
               /\ stack' = SetTop([Top EXCEPT !.parvalues = MSet(eff.params, heap[par].name, Val(v)),
                                              !.i = @ + 1, !.pc = "loop"])
               /\ draws' = Append(draws, [par |-> par, context |-> Top.parvalues,
                                          kwargs |-> r.call[2].kwargs, value |-> Val(v)])
               /\ heap' = eff.heap
               /\ UNCHANGED <<status, error>>
    /\ UNCHANGED <<script, roots, result, call, ncalls>>

(***************************************************************************)
(* Direct calls.                                                           *)
(***************************************************************************)
\* the add_kwarg that came before a call, if any
Added == IF status = "added" THEN call ELSE NoCall

\* f(params=context, **overrides), or f(**overrides)
Evaluate ==
    /\ status \in {"idle", "added"}
    /\ \E f \in Functions(heap) :
       \E ctx \in Contexts(ConsultedNames(heap, f)) :
       \E ov \in Overrides(DKeys(heap[f].func_kwargs) \cup {"size", "zz"}) :
       \E withParams \in BOOLEAN :
        /\ withParams \/ ctx = EmptyMap
        /\ LET kwargs == IF withParams THEN MSet(ov, "params", ctx) ELSE ov
               value == FunctionCall(heap, f, <<>>, kwargs)
               eff == CallEffect(heap, f, kwargs)
           IN /\ call' = [op |-> "Function.__call__", id |-> f, params |-> ctx,
                          overrides |-> ov, err |-> "",
                          passed |-> CallKwargs(heap, f, kwargs),
                          value |-> value,
                          raised |-> Invoke(value).err, lib |-> Invoke(value).lib,
                          after |-> eff.params, added |-> Added]
              /\ heap' = eff.heap
    /\ status' = "called"
    /\ UNCHANGED <<script, roots, stack, draws, result, error, ncalls>>

\* p.sample(params=context, **overrides)
SampleParameter ==
    /\ status = "idle"
    /\ \E p \in Parameters(heap) :
       \E ctx \in Contexts(ConsultedNames(heap, heap[p].prior) \cup {heap[p].name}) :
       \E ov \in Overrides(DKeys(heap[heap[p].prior].func_kwargs) \cup {heap[p].name}) :
        LET kwargs == MSet(ov, "params", ctx)
            r == ParameterSample(heap, p, kwargs)
            out == IF r.err = "" THEN Invoke(r.call) ELSE Outcome("", <<>>)
            eff == IF r.err = "" THEN CallEffect(heap, heap[p].prior, kwargs)
                   ELSE [heap |-> heap, params |-> ctx]
        IN \E v \in DrawVals :
            /\ call' = [op |-> "Parameter.sample", id |-> p, params |-> ctx,
                        overrides |-> ov, err |-> r.err,
                        passed |-> IF r.err = "" THEN r.call[2].kwargs ELSE EmptyMap,
                        value |-> IF r.err = "" /\ out.err = "" THEN Val(v) ELSE None,
                        raised |-> out.err, lib |-> out.lib,
                        after |-> eff.params, added |-> NoCall]
            /\ heap' = eff.heap
    /\ status' = "called"
    /\ UNCHANGED <<script, roots, stack, draws, result, error, ncalls>>

\* p.get_pdf(value, params=context) and p.get_logpdf(value, params=context),
\* with the value or without it
GetPdf ==
    /\ status = "idle"
    /\ \E p \in Parameters(heap) :
       \E ctx \in Contexts(ConsultedNames(heap, heap[p].prior) \cup {heap[p].name}) :
       \E value \in {None, Val("x")} :
       \E log \in BOOLEAN :
        LET kwargs == "params" :> ctx
            r == ParameterGetPdf(heap, p, value, kwargs, log)
            out == IF r.err = "" THEN Invoke(r.call) ELSE Outcome("", <<>>)
            eff == IF r.err = "" THEN CallEffect(heap, heap[p].prior, kwargs)
                   ELSE [heap |-> heap, params |-> ctx]
        IN /\ call' = [op |-> IF log THEN "Parameter.get_logpdf" ELSE "Parameter.get_pdf",
                       id |-> p, params |-> ctx, overrides |-> EmptyMap, err |-> r.err,
                       passed |-> IF r.err = "" THEN r.call[2].kwargs ELSE EmptyMap,
                       value |-> IF out.err = "" THEN r.value ELSE None,
                       raised |-> out.err, lib |-> out.lib,
                       after |-> eff.params, added |-> NoCall]
           /\ heap' = eff.heap
    /\ status' = "called"
    /\ UNCHANGED <<script, roots, stack, draws, result, error, ncalls>>

\* x.params, of a Parameter or of a Function
ReadParams ==
    /\ status = "idle"
    /\ \E x \in Parameters(heap) \cup Functions(heap) :
        LET r == IF IsParameter(heap, x) THEN ParameterParams(heap, x, RecursionLimit)
                 ELSE FunctionParams(heap, x, RecursionLimit)
        IN call' = [op |-> "params", id |-> x, err |-> r.err, list |-> r.list]
    /\ status' = "called"
    /\ UNCHANGED <<script, heap, roots, stack, draws, result, error, ncalls>>

\* the candidate names of a later instantiation
NewNames == CtxNames \cup {"new"}

\* x(name), of an instance, any number of times
Rename ==
    /\ status \in {"idle", "renamed"}
    /\ \E x \in DOMAIN heap \ Functions(heap) :
       \E name \in NewNames :
        LET r == ParameterCall(heap, x, name)
        IN /\ call' = [op |-> "__call__", id |-> x, name |-> name, ret |-> r.ret,
                       again |-> status = "renamed"]
           /\ heap' = r.heap
    /\ status' = "renamed"
    /\ UNCHANGED <<script, roots, stack, draws, result, error, ncalls>>

\* f.add_kwarg(k=v), for a declared keyword or for the vector size
AddKwarg ==
    /\ status = "idle"
    /\ \E f \in Functions(heap) :
       \E k \in DKeys(heap[f].func_kwargs) \cup {"size"} :
        /\ call' = [op |-> "add_kwarg", id |-> f, key |-> k, value |-> Val("kw")]
        /\ heap' = FunctionAddKwarg(heap, f, k, Val("kw"))
    /\ status' = "added"
    /\ UNCHANGED <<script, roots, stack, draws, result, error, ncalls>>

Next ==
    \/ Build
    \/ CallSample
    \/ Descend
    \/ Return
    \/ Draw
    \/ Evaluate
    \/ SampleParameter
    \/ GetPdf
    \/ ReadParams
    \/ Rename
    \/ AddKwarg

Spec == Init /\ [][Next]_vars
(***************************************************************************)
(* The dependency graph, read off the instances.                           *)
(***************************************************************************)
\* the non-constant parameters in the sub-parameter map of Function f
SubParameters(h, f) ==
    {h[f].params[j][2] : j \in 1..Len(h[f].params)} \cap Parameters(h)

RECURSIVE BoundParameters(_, _)
\* the non-constant parameters bound in Function f or in a sub-function of
\* it, at any depth
BoundParameters(h, f) ==
    SubParameters(h, f)
        \cup UNION {BoundParameters(h, h[f].funcs[j][2]) : j \in 1..Len(h[f].funcs)}

\* the hyperparameters of p: the parameters its prior resolves a slot from
Hyper(h, p) == SubParameters(h, h[p].prior)

RECURSIVE HyperClosure(_, _, _)
\* S and every parameter reached from it in n steps of Hyper
HyperClosure(h, S, n) ==
    IF n = 0 THEN S
    ELSE HyperClosure(h, S \cup UNION {Hyper(h, p) : p \in S}, n - 1)

\* the roots and their recursively discovered hyperparameters
Discovered(h, parlist) ==
    HyperClosure(h, {parlist[j] : j \in 1..Len(parlist)}, Cardinality(Parameters(h)))

RECURSIVE InvolvedClosure(_, _, _)
\* S and every parameter reached from it in n steps through the parameters
\* bound in a prior or in its sub-functions
InvolvedClosure(h, S, n) ==
    IF n = 0 THEN S
    ELSE InvolvedClosure(h, S \cup UNION {BoundParameters(h, h[p].prior) : p \in S}, n - 1)

\* the roots and every parameter bound, at any depth of sub-functions, in
\* the prior of an involved parameter
Involved(h, parlist) ==
    InvolvedClosure(h, {parlist[j] : j \in 1..Len(parlist)}, Cardinality(Parameters(h)))

\* some parameter reached from the roots is its own hyperparameter
Cyclic(h, parlist) ==
    \E p \in Discovered(h, parlist) :
        p \in HyperClosure(h, Hyper(h, p), Cardinality(Parameters(h)))

DrawsOf(p) == {j \in 1..Len(draws) : draws[j].par = p}
\* the draw that produced the value recorded last for p
LastDraw(p) == draws[CHOOSE j \in DrawsOf(p) : \A k \in DrawsOf(p) : k <= j]

(***************************************************************************)
(* The claims about the sampling driver.                                   *)
(***************************************************************************)
\* C1: when sample(parlist) has returned, the sampler of every parameter
\* reached from the roots was called exactly once during the call.
C1_SampledExactlyOnce ==
    status = "returned" =>
        \A p \in Discovered(heap, roots) : Cardinality(DrawsOf(p)) = 1

\* C2: in the returned mapping, the value of every hyperparameter h that was
\* handed to the sampler of p for the draw recorded under p is the value
\* recorded under h.
C2_Consistent ==
    status = "returned" =>
        \A p \in Discovered(heap, roots) :
            \A j \in 1..Len(heap[heap[p].prior].params) :
                LET hp == heap[heap[p].prior].params[j][2]
                IN hp \in Parameters(heap) =>
                    /\ DrawsOf(p) # {}
                    /\ heap[hp].name \in DOMAIN LastDraw(p).context
                    /\ heap[hp].name \in DOMAIN result
                    /\ LastDraw(p).context[heap[hp].name] = result[heap[hp].name]

C4_KeysAreInvolved ==
    status = "returned" =>
        DOMAIN result = {heap[p].name : p \in Involved(heap, roots)}

\* C5: on a cyclic graph sample() ends in a usage error (ValueError, as the
\* module's other usage error) and returns no mapping; it does not recurse
\* until the interpreter gives up.
C5_CycleFailsFast ==
    (status \in {"returned", "raised"} /\ Cyclic(heap, roots)) =>
        (status = "raised" /\ error = "ValueError")

(***************************************************************************)
(* The claims about Parameter.sample and Function evaluation.              *)
(***************************************************************************)
\* C6: Parameter.sample on a parameter with a sampler raises the usage error
\* exactly when the value context holds a value under the parameter's name.
C6_OwnValueRejected ==
    (call.op = "Parameter.sample" /\ heap[call.id].sampler # "None") =>
        (call.err = "ValueError" <=> heap[call.id].name \in DOMAIN call.params)

\* C7: a declared slot given as an override reaches the callable with
\* exactly the override's value, whatever the slot is bound to and whatever
\* the value context holds.
C7_OverrideWins ==
    call.op = "Function.__call__" =>
        \A k \in DOMAIN call.overrides \cap DKeys(heap[call.id].func_kwargs) :
            /\ k \in DOMAIN call.passed
            /\ call.passed[k] = call.overrides[k]

\* an overridden slot is bound to a parameter whose name the context holds,
\* and another to a sub-function
C7_Witness ==
    /\ call.op = "Function.__call__"
    /\ \E k \in DOMAIN call.overrides :
        \/ /\ DHas(heap[call.id].params, k)
           /\ heap[DGet(heap[call.id].params, k)].name \in DOMAIN call.params
        \/ DHas(heap[call.id].funcs, k)

Glue(a, b) == IF a = "" THEN b ELSE IF b = "" THEN a ELSE a \o "_" \o b

RECURSIVE NamedByRule(_, _, _)
\* Function f, instantiated under context name c, and everything below it
\* that was instantiated from a spec carries the name the rule gives
NamedByRule(h, f, c) ==
    /\ h[f].name = Glue(c, h[f].fname)
    /\ \A j \in 1..Len(h[f].func_kwargs) :
        LET k == h[f].func_kwargs[j][1]
            arg == h[f].func_kwargs[j][2]
            n == Glue(c, Glue(h[f].fname, k))
        IN CASE arg.t = "CSpec" -> h[f \o <<k>>].name = n
             [] arg.t = "PSpec" -> /\ h[f \o <<k>>].name = n
                                   /\ NamedByRule(h, f \o <<k, "prior">>, n)
             [] arg.t = "FSpec" -> NamedByRule(h, f \o <<k>>, n)
             [] OTHER -> TRUE

\* the statements of the script that instantiate a spec
Instantiations == {j \in 1..Len(script) : script[j].op = "new"}

\* C9: a Function instantiated under context name c is named the "_"-join
\* of the non-empty ones of (c, f), and what it instantiates for slot k is
\* instantiated with the "_"-join of the non-empty ones of (c, f, k).
C9_HierarchicalNames ==
    \A j \in Instantiations :
        IF script[j].spec.t = "FSpec"
        THEN NamedByRule(heap, script[j].id, script[j].name)
        ELSE /\ heap[script[j].id].name = script[j].name
             /\ NamedByRule(heap, script[j].id \o <<"prior">>, script[j].name)

\* under context "sig" and without an intrinsic name, the parameter of slot
\* "a" is named "sig_a", and a sub-function has instantiated a parameter
C9_Witness ==
    \E f \in Functions(heap) :
        /\ heap[f].name = "sig" /\ heap[f].fname = ""
        /\ DHas(heap[f].params, "a")
        /\ heap[DGet(heap[f].params, "a")].name = "sig_a"
        /\ \E j \in 1..Len(heap[f].funcs) : heap[heap[f].funcs[j][2]].params # <<>>

\* the objects made by the instantiation of statement j
CreatedBy(j) ==
    {id \in DOMAIN heap : id[1] = script[j].id[1] /\ \A i \in 1..Len(id) : id[i] # "prior'"}

NamesUnique(j) ==
    \A x \in CreatedBy(j), y \in CreatedBy(j) :
        (x # y /\ IsFunction(heap, x) = IsFunction(heap, y)) => heap[x].name # heap[y].name

\* the names of the model that contain "_"
Underscored == {"a_b"}

\* some slot key or intrinsic name used by the instantiation contains "_"
UsesUnderscore(j) ==
    \E f \in CreatedBy(j) \cap Functions(heap) :
        \/ heap[f].fname \in Underscored
        \/ DKeys(heap[f].func_kwargs) \cap Underscored # {}

\* C10 as claimed: no two Parameter or ConstantParameter instances, and no
\* two Function instances, made by one instantiation carry the same name,
\* whatever the slot keys and intrinsic names.
C10_NamesUnique == \A j \in Instantiations : NamesUnique(j)

\* C10 as amended: the names are unique when no slot key and no intrinsic
\* name contains "_".
C10_NamesUniqueWithoutUnderscore ==
    \A j \in Instantiations : ~UsesUnderscore(j) => NamesUnique(j)

\* an instantiation without "_" that made parameters in a Function and in
\* a sub-function of a sub-function of it
C10_Witness ==
    \E j \in Instantiations :
        /\ ~UsesUnderscore(j)
        /\ \E f \in CreatedBy(j) \cap Functions(heap) :
            /\ SubParameters(heap, f) # {}
            /\ \E g \in CreatedBy(j) \cap Functions(heap) :
                /\ Len(g) = Len(f) + 2
                /\ SubSeq(g, 1, Len(f)) = f
                /\ heap[g].func = "k"
                /\ SubParameters(heap, g) # {}

(***************************************************************************)
(* The claims about flattening, frames and renaming.                       *)
(***************************************************************************)
\* the constants in the sub-parameter map of Function f, or in that of a
\* sub-function of it or of the prior of a parameter flattened with it
RECURSIVE ConstantsBelow(_, _, _)
ConstantsBelow(h, f, n) ==
    IF n = 0 THEN {}
    ELSE ({h[f].params[j][2] : j \in 1..Len(h[f].params)} \ Parameters(h))
            \cup UNION {ConstantsBelow(h, h[f].funcs[j][2], n - 1) : j \in 1..Len(h[f].funcs)}
            \cup UNION {ConstantsBelow(h, h[p].prior, n - 1) : p \in SubParameters(h, f)}

\* C11: whatever params returns, of a Parameter or of a Function, holds
\* Parameter instances only: no ConstantParameter, at any depth.
C11_NoConstantInParams ==
    call.op = "params" =>
        \A j \in 1..Len(call.list) : IsParameter(heap, call.list[j])

\* params of a Function returned a parameter, and its sub-parameter map
\* holds a constant that was merged in from a sub-function
C11_Witness ==
    /\ call.op = "params" /\ call.err = "" /\ IsFunction(heap, call.id)
    /\ call.list # <<>>
    /\ \E c \in ConstantsBelow(heap, call.id, 1) : Len(c) > Len(call.id) + 1

\* the methods that evaluate or sample
Evaluations ==
    {"Function.__call__", "Parameter.sample", "Parameter.get_pdf", "Parameter.get_logpdf"}

\* C12: a step of Function evaluation, get_pdf, get_logpdf, Parameter.sample
\* or of the driver sample() changes no instance (names, sub-parameter,
\* sub-function and default maps included) and leaves the caller's value
\* context as it was; every call of sample() starts from an empty mapping,
\* whatever an earlier call returned, and every entry of the mapping it
\* returns is a value drawn during that call.
C12_NothingMutated ==
    [][status' \in {"sampling", "returned", "raised", "called"} =>
        /\ heap' = heap
        /\ call'.op \in Evaluations => call'.after = call'.params
        /\ (status \in {"idle", "returned"} /\ status' = "sampling") =>
               stack'[1].parvalues = EmptyMap
        /\ status' = "returned" =>
               \A n \in DOMAIN result' :
                   \E j \in 1..Len(draws') :
                       /\ heap'[draws'[j].par].name = n
                       /\ draws'[j].value = result'[n]]_vars

\* a second call of sample() has returned a mapping with a hyperparameter
C12_Witness ==
    /\ ncalls = 2 /\ status = "returned"
    /\ \E j \in 1..Len(draws) : Hyper(heap, draws[j].par) # {}

\* C13: calling an instantiated Parameter or ConstantParameter with a name
\* returns that same instance, and after any number of such calls every
\* instance is as the instantiation left it (name, prior and size).
C13_RenameIsNoOp ==
    status = "renamed" =>
        /\ call.ret = call.id
        /\ heap = RunScript(<<>>, script)

\* an instance was called again, with a name that is not its own
C13_Witness ==
    /\ status = "renamed" /\ call.again
    /\ call.name # heap[call.id].name
    /\ IsParameter(heap, call.id)

(***************************************************************************)
(* The claims about sharing and about the sub-parameter map.               *)
(***************************************************************************)
\* the entries of Function f's func_kwargs that are an instantiated
\* Parameter or ConstantParameter
InstanceSlots(h, f) ==
    {j \in 1..Len(h[f].func_kwargs) :
        /\ h[f].func_kwargs[j][2].t = "Inst"
        /\ ~IsFunction(h, h[f].func_kwargs[j][2].ref)}

\* the name the script gave to the top-level instance x
GivenName(x) == script[CHOOSE j \in Instantiations : script[j].id = x].name

\* slot k of Function f holds the instance x and is resolved from the
\* context entry under x's name
HoldsAndResolves(f, k, x) ==
    /\ DHas(heap[f].params, k)
    /\ DGet(heap[f].params, k) = x
    /\ (/\ call.op = "Function.__call__" /\ call.id = f
        /\ k \notin DOMAIN call.overrides
        /\ heap[x].name \in DOMAIN call.params)
       => (k \in DOMAIN call.passed /\ call.passed[k] = call.params[heap[x].name])

\* C14: an instance given as a keyword value to two Functions is, in both,
\* the entry of the sub-parameter map under the slot, it keeps the name of
\* its own instantiation, and both resolve the slot from the context entry
\* under that name.
C14_SharedInstance ==
    \A f \in Functions(heap), g \in Functions(heap) :
        \A i \in InstanceSlots(heap, f), j \in InstanceSlots(heap, g) :
            (f # g /\ heap[f].func_kwargs[i][2] = heap[g].func_kwargs[j][2]) =>
                LET x == heap[f].func_kwargs[i][2].ref
                IN /\ heap[x].name = GivenName(x)
                   /\ HoldsAndResolves(f, heap[f].func_kwargs[i][1], x)

(***************************************************************************)
(* The claims about the prior library and about add_kwarg.                 *)
(***************************************************************************)
\* the last call reached the prior or the sampler of a LinearExp parameter
\* with both bounds
LinearExpCalled ==
    /\ call.op \in {"Parameter.sample", "Parameter.get_pdf", "Parameter.get_logpdf"}
    /\ call.err = ""
    /\ heap[heap[call.id].prior].func = "LinearExpPrior"
    /\ {"pmin", "pmax"} \subseteq DOMAIN call.passed

\* C15: with pmin >= pmax a LinearExp raises the domain error, in get_pdf,
\* in get_logpdf and in sample alike, and has not called the random-number
\* library by then; with pmin < pmax none of them raises.
C15_LinearExpValidates ==
    LinearExpCalled =>
        IF Number(call.passed["pmin"]) >= Number(call.passed["pmax"])
        THEN call.raised = "ValueError" /\ call.lib = <<>>
        ELSE call.raised = ""

\* sample() of a LinearExp whose lower bound is a hyperparameter, resolved
\* from the context to a value that is not below the upper bound
C15_Witness ==
    /\ LinearExpCalled /\ call.op = "Parameter.sample"
    /\ call.raised = "ValueError"
    /\ call.passed["pmin"] = Val("ctx")

\* the last call is an evaluation that came after an add_kwarg
EvaluatedAfterAdd == call.op = "Function.__call__" /\ call.added.op = "add_kwarg"

\* C16: after f.add_kwarg(k=v), an evaluation of f without an override of k,
\* where k has no entry in the sub-parameter map, passes k=v to the
\* callable, be k a declared keyword or one given only to add_kwarg, such
\* as the vector size; the defaults of another instance are what its
\* instantiation made.
C16_AddKwargApplies ==
    EvaluatedAfterAdd =>
        LET k == call.added.key IN
        IF call.id = call.added.id
        THEN (k \notin DOMAIN call.overrides /\ ~DHas(heap[call.id].params, k)) =>
                (k \in DOMAIN call.passed /\ call.passed[k] = call.added.value)
        ELSE heap[call.id].defaults = RunScript(<<>>, script)[call.id].defaults

(***************************************************************************)
(* The claims about the keywords that reach a callable.                    *)
(***************************************************************************)
\* the slots of the evaluated Function that are resolved by evaluating a
\* sub-function
SubFunctionSlots ==
    {k \in DKeys(heap[call.id].func_kwargs) \ DOMAIN call.overrides :
        /\ DHas(heap[call.id].funcs, k)
        /\ ~DHas(heap[call.id].params, k)
        /\ ~DHas(heap[call.id].defaults, k)}

\* C17: the value passed for a sub-function slot is the value of the
\* sub-function evaluated on its own with the full context and with those of
\* the caller's overrides whose keys it declares, and nothing else.
C17_SubFunctionForwarding ==
    call.op = "Function.__call__" =>
        \A k \in SubFunctionSlots :
            LET g == DGet(heap[call.id].funcs, k)
                own == MRestrict(call.overrides, DKeys(heap[g].func_kwargs))
            IN /\ k \in DOMAIN call.passed
               /\ call.passed[k] = FunctionCall(heap, g, <<>>, MSet(own, "params", call.params))

RECURSIVE DeclaresBelow(_, _, _)
\* a sub-function of Function f, at any depth, declares the keyword k
DeclaresBelow(h, f, k) ==
    \E j \in 1..Len(h[f].funcs) :
        \/ k \in DKeys(h[h[f].funcs[j][2]].func_kwargs)
        \/ DeclaresBelow(h, h[f].funcs[j][2], k)

\* the keywords p.get_pdf(value, params=context) passes to the density
DensityKwargs(p, context) ==
    ParameterGetPdf(heap, p, Val("x"), "params" :> context, FALSE).call[2].kwargs

WithoutSize(kwargs) == MRestrict(kwargs, DOMAIN kwargs \ {"size"})

\* the last call is p.sample(params=context) and reached the sampler
SampledWithContext ==
    call.op = "Parameter.sample" /\ call.err = "" /\ call.overrides = EmptyMap

\* C18 as claimed: for every parameter and every context, the keywords
\* sample passes to the sampler are, but for size, the keywords get_pdf
\* passes to the density function.
C18_SamplerKwargsAreDensityKwargs ==
    SampledWithContext =>
        WithoutSize(call.passed) = WithoutSize(DensityKwargs(call.id, call.params))

\* C18 as amended: they are when no sub-function below the prior declares a
\* keyword size.
C18_SamplerKwargsUnlessSizeDeclared ==
    (SampledWithContext /\ ~DeclaresBelow(heap, heap[call.id].prior, "size")) =>
        WithoutSize(call.passed) = WithoutSize(DensityKwargs(call.id, call.params))

\* the sampler of a parameter whose prior has a sub-function was handed a
\* hyperparameter's value from the context
C18_Witness ==
    /\ SampledWithContext
    /\ ~DeclaresBelow(heap, heap[call.id].prior, "size")
    /\ heap[heap[call.id].prior].funcs # <<>>
    /\ \E k \in DOMAIN call.passed : call.passed[k] = Val("ctx")

\* C19: the callable is passed only declared keywords and psr, mask and
\* size; an override of such a key is passed with its value, a declared
\* keyword resolved from a literal default with the default, and the
\* instance's pulsar as psr when psr is not overridden.
C19_OnlyDeclaredOrAllowed ==
    call.op = "Function.__call__" =>
        LET self == heap[call.id]
            allowed == DKeys(self.func_kwargs) \cup {"psr", "mask", "size"}
        IN /\ DOMAIN call.passed \subseteq allowed
           /\ \A k \in DOMAIN call.overrides \cap allowed :
                  k \in DOMAIN call.passed /\ call.passed[k] = call.overrides[k]
           /\ \A k \in DKeys(self.func_kwargs) \ DOMAIN call.overrides :
                  (~DHas(self.params, k) /\ DHas(self.defaults, k)) =>
                      (k \in DOMAIN call.passed /\ call.passed[k] = DGet(self.defaults, k))
           /\ (self.psr # None /\ "psr" \notin DOMAIN call.overrides) =>
                  ("psr" \in DOMAIN call.passed /\ call.passed["psr"] = self.psr)

\* an undeclared key was dropped where the pulsar and a literal default
\* were passed
C19_Witness ==
    /\ call.op = "Function.__call__"
    /\ heap[call.id].psr # None
    /\ heap[call.id].defaults # <<>>
    /\ "zz" \in DOMAIN call.overrides
    /\ "psr" \in DOMAIN call.passed

\* the entries of Function f's func_kwargs that are a Parameter or Constant,
\* class or instance
DirectSlots(h, f) ==
    {j \in 1..Len(h[f].func_kwargs) : h[f].func_kwargs[j][2].t \in {"PSpec", "CSpec"}}
        \cup InstanceSlots(h, f)

\* the parameter bound to entry j of Function f's func_kwargs
BoundTo(h, f, j) ==
    IF h[f].func_kwargs[j][2].t = "Inst" THEN h[f].func_kwargs[j][2].ref
    ELSE f \o <<h[f].func_kwargs[j][1]>>

\* C20: in every Function, the sub-parameter map entry of a slot bound
\* directly to a parameter or constant is that parameter, evaluation
\* resolves the slot from the context entry under its name, and every
\* sub-parameter of every sub-function is still in the map after the merge.
C20_MergeHidesNothing ==
    \A f \in Functions(heap) :
        /\ \A j \in DirectSlots(heap, f) :
               HoldsAndResolves(f, heap[f].func_kwargs[j][1], BoundTo(heap, f, j))
        /\ \A m \in 1..Len(heap[f].funcs) :
               LET g == heap[f].funcs[m][2]
               IN \A n \in 1..Len(heap[g].params) :
                      \E i \in 1..Len(heap[f].params) :
                          heap[f].params[i][2] = heap[g].params[n][2]

====
